---- MODULE Spec2Model ----
(***************************************************************************)
(* EventEmitter of src/src/event-emitter.ts as a state machine.           *)
(*                                                                         *)
(* The emitter owns two registries: `listeners`, a plain object whose own  *)
(* properties map an event type to a Set of listeners, and                 *)
(* `globalListeners`, a Set.  A JavaScript Set iterates in insertion order *)
(* and its iteration is live: an entry deleted before the cursor reaches   *)
(* it is not visited and an entry appended during the iteration is.  A Set *)
(* is modelled as a duplicate-free sequence and an iteration as a cursor   *)
(* (the number of entries behind it), which a deletion behind the cursor   *)
(* moves back by one.                                                      *)
(*                                                                         *)
(* emit runs listeners on the caller's stack, and a listener may call the  *)
(* emitter again, so the control state is a stack of emit activations,     *)
(* each with the listener it is currently running, if any.                 *)
(***************************************************************************)
EXTENDS Integers, Sequences, FiniteSets, TLC

\* Bounds of the model.
MaxDepth == 2   \* emit activations on the stack (nested emits)
MaxCalls == 4   \* listener invocations made by one emit activation
MaxOps == 2     \* emitter calls made by listeners during one top-level emit

----------------------------------------------------------------------------
\* Values.

Str(v) == [kind |-> "string", name |-> v]
Num(v) == [kind |-> "number", name |-> v]
Sym(v) == [kind |-> "symbol", name |-> v]

\* The event schema (TEvents): a string key with a payload, a symbol key
\* without one (void), and a string key that names a property every object
\* inherits.
EventKeys == {Str("data"), Sym("loaded"), Str("constructor")}
IsVoid(type) == type = Sym("loaded")

\* The payload type of each key: TEvents[type].
Data(type) == IF type = Str("data") THEN {"x", "y"} ELSE {"x"}
Undefined == "undefined"
\* The rest parameter `...data` of emit: [] for a void event, [data] otherwise.
Payloads(type) == IF IsVoid(type) THEN {<<>>} ELSE {<<d>> : d \in Data(type)}

\* Listener references (functions); identity is reference identity.
Listeners == {"f", "g"}
Nil == "nil"

\* What a listener hands back: nothing, or a promise that is already
\* rejected (an async function whose body throws).
ReturnValues == {Undefined, "rejectedPromise"}

\* ToPropertyKey: a number used as a property name is its decimal string.
ToPropertyKey(type) == IF type.kind = "number" THEN Str(type.name) ELSE type

\* Property names an object literal `{}` inherits from Object.prototype.
ObjectPrototype ==
  {Str("constructor"), Str("toString"), Str("valueOf"), Str("hasOwnProperty"),
   Str("isPrototypeOf"), Str("propertyIsEnumerable"), Str("toLocaleString"),
   Str("__proto__")}

----------------------------------------------------------------------------
\* A Set as a sequence without duplicates, in insertion order.

SetHas(s, x) == \E n \in 1..Len(s) : s[n] = x
SetAdd_Push(s, x) == Append(s, x)
SetAdd_MoveToEnd(s, x) == Append(SelectSeq(s, LAMBDA y : y # x), x)
SetAdd(s, x) == IF SetHas(s, x) THEN s ELSE Append(s, x)
SetDelete_Keep(s, x) == s
SetDelete(s, x) == SelectSeq(s, LAMBDA y : y # x)
\* Position of x in s, 0 when absent.
IndexOf(s, x) == IF SetHas(s, x) THEN CHOOSE n \in 1..Len(s) : s[n] = x ELSE 0
Range(s) == {s[n] : n \in 1..Len(s)}
Count(s, x) == Cardinality({n \in 1..Len(s) : s[n] = x})

----------------------------------------------------------------------------
VARIABLES
  listeners,        \* own properties of this.listeners: property key -> Set
  globalListeners,  \* this.globalListeners
  stack,            \* emit activations, outermost first
  pending,          \* the exception being thrown, if any
  ops,              \* emitter calls made by listeners in this top-level emit
  last,             \* the emitter call that has just ended, and how
  registered,       \* history: the registrations the calls have left in force
  watch,            \* history: the registration that is followed
  fate,             \* history: what has happened to the watched registration
  promises,         \* listeners whose deferred result has not settled yet
  self              \* the emitter instance: which class it was made from

vars == <<listeners, globalListeners, stack, pending, ops, last, registered,
          watch, fate, promises, self>>

None == "none"

\* Property lookup on this.listeners, through the prototype chain.
HasOwn(obj, p) == p \in DOMAIN obj
\* `p in obj`
HasProperty(obj, p) == HasOwn(obj, p) \/ p \in ObjectPrototype
\* obj[p] is a value that is not a Set (a function or object of the prototype)
IsInherited(obj, p) == ~HasOwn(obj, p) /\ p \in ObjectPrototype
\* obj[p] === undefined
IsUndefined(obj, p) == ~HasProperty(obj, p)

\* obj[p] = v
PutProperty(obj, p, v) == [q \in DOMAIN obj \cup {p} |-> IF q = p THEN v ELSE obj[q]]
\* The properties `for (const key in obj)` visits: enumerable string-named
\* ones; symbol-named properties are not enumerated.
ForInKeys(obj) == {p \in DOMAIN obj : p.kind = "string"}
\* delete obj[p] for every p in ps
DeleteProperties(obj, ps) == [q \in DOMAIN obj \ ps |-> obj[q]]

----------------------------------------------------------------------------
\* Emit activations.

\* History of the calls made.  `registered` is what the calls that returned
\* have left in force at each place (an event key, or AllEvents for the
\* global registry), in the order the registrations were made: on and onAll
\* register a listener unless it is registered there, off and offAll remove
\* it, and clear removes every registration.
AllEvents == [kind |-> "all", name |-> "*"]
Places == {ToPropertyKey(type) : type \in EventKeys} \cup {AllEvents}
Register(place, fn) ==
  [registered EXCEPT ![place] = IF SetHas(@, fn) THEN @ ELSE Append(@, fn)]
Unregister(place, fn) ==
  [registered EXCEPT ![place] = SelectSeq(@, LAMBDA y : y # fn)]
NoneRegistered == [place \in Places |-> <<>>]

\* `watch` is one registration (a place and a listener) and `fate` what the
\* calls have done to it: "was" once on/onAll has made it, "again" once
\* on/onAll has been called for it while it was in force, "off" once
\* off/offAll has been called for it since, "clear" once clear() has been
\* called over it since.
MadeAgain == IF "was" \in fate /\ fate \cap {"off", "clear"} = {}
             THEN {"was", "again"} ELSE {"was"}
NoWatch == [type |-> Str(""), fn |-> Nil]
Watched(type, fn) == watch.type = type /\ watch.fn = fn

\* The activation of emit(type, ...data).  `live` says that the Set the key
\* pass iterates is still the one stored in this.listeners; once clear() has
\* deleted the property the activation keeps iterating the Set object itself
\* (`own`), which nothing else can reach any more.  `this` is the receiver
\* of the call.  The fields from keys0 on are history: the two Sets and the
\* registrations in force when the call began, the listeners newly
\* registered for its key during its key pass (and after which invocation),
\* the fate of the watched registration when the call began, whether a
\* listener has changed a registry since, which invocation (its number in
\* `calls`, 0 for none) first handed back a rejected promise and which one
\* threw, the listeners that handed back a promise that is not settled, the
\* listeners that off (for its key) and offAll were called for since, and
\* the invocation that called clear() last (0 for none).
Activation(type, data) ==
  LET p == ToPropertyKey(type)
      has == HasOwn(listeners, p)
  IN [type |-> type, data |-> data,
      pc |-> IF has THEN "keys" ELSE "globals",
      live |-> has, own |-> <<>>, i |-> 0, j |-> 0,
      running |-> Nil, calls |-> <<>>,
      keys0 |-> IF has THEN listeners[p] ELSE <<>>,
      globals0 |-> globalListeners,
      reg0 |-> registered[p], greg0 |-> registered[AllEvents],
      added |-> {},
      stale |-> IF watch.type \in {p, AllEvents} THEN fate ELSE {},
      mutated |-> FALSE, rejected |-> 0, threw |-> 0,
      this |-> self, deferred |-> {}, removed |-> {}, gremoved |-> {},
      clearedAt |-> 0]

NoActivation ==
  [type |-> Str(""), data |-> <<>>, pc |-> "none", live |-> FALSE, own |-> <<>>,
   i |-> 0, j |-> 0, running |-> Nil, calls |-> <<>>, keys0 |-> <<>>,
   globals0 |-> <<>>, reg0 |-> <<>>, greg0 |-> <<>>, added |-> {}, stale |-> {},
   mutated |-> FALSE, rejected |-> 0, threw |-> 0,
   this |-> Nil, deferred |-> {}, removed |-> {}, gremoved |-> {},
   clearedAt |-> 0]

Top == stack[Len(stack)]
Pop == SubSeq(stack, 1, Len(stack) - 1)

\* The Set the key pass of activation a iterates.
KeySet(a) == IF a.live THEN listeners[ToPropertyKey(a.type)] ELSE a.own

LexicalThis_Function(a) == Undefined
\* `this` inside the arrow function handed to forEach is the `this` of emit.
LexicalThis(a) == a.this

\* One listener invocation by the innermost emit: the function, the pass that
\* made it, the arguments and the `this` it was applied to.  `reg` is
\* history: whether the calls made so far have left the function registered
\* at the place the pass reads.
Invocation(fn, pass, args) ==
  [fn |-> fn, pass |-> pass, args |-> args,
   this |-> IF pass = "key" THEN LexicalThis(Top) ELSE Top.this,
   reg |-> SetHas(registered[IF pass = "key" THEN ToPropertyKey(Top.type)
                             ELSE AllEvents], fn)]

\* The record of a call that has ended: what was called, by whom (depth 0 is
\* the host program), and whether it returned `this` or threw.
Ended(op, type, fn, outcome, act) ==
  [op |-> op, type |-> type, fn |-> fn, outcome |-> outcome, act |-> act,
   depth |-> Len(stack)]
NoLast == [Ended("none", Str(""), Nil, None, NoActivation) EXCEPT !.depth = 0]

Init ==
  /\ listeners = [p \in {} |-> <<>>]
  /\ globalListeners = <<>>
  /\ stack = <<>>
  /\ pending = None
  /\ ops = 0
  /\ last = NoLast
  /\ registered = NoneRegistered
  /\ watch = NoWatch
  /\ fate = {}
  /\ promises = {}
  /\ self = "EventEmitter"

----------------------------------------------------------------------------
\* Who may call the emitter: the host program when no emit is running, or
\* the listener that is running on top of the stack.

Host == stack = <<>>
Running == stack # <<>> /\ Top.running # Nil

CanCall ==
  /\ pending = None
  /\ Host \/ (Running /\ ops < MaxOps)

Charge == ops' = IF Host THEN 0 ELSE ops + 1

\* An exception leaving the emitter reaches the host program, which handles
\* it, or the running listener, which may catch it or let it pass.
Raise(error) == pending' = IF Host THEN None ELSE error

\* What a call does to the activations on the stack.
EachActivation(f) == IF DOMAIN f = {} THEN <<>> ELSE f

Changed == listeners' # listeners \/ globalListeners' # globalListeners
Mark(a) == [a EXCEPT !.mutated = @ \/ Changed]

\* Set.prototype.add: an iteration in progress reaches the appended entry.
AfterAdd(a, p, fn) ==
  IF a.pc = "keys" /\ ToPropertyKey(a.type) = p /\ ~SetHas(registered[p], fn)
  THEN [a EXCEPT !.added = @ \cup {[fn |-> fn, at |-> Len(a.calls)]}] ELSE a
\* Set.prototype.delete under a live iteration: the cursor of an iteration
\* that has passed the deleted entry (at position idx) moves back with it.
AfterDelete_Stay(a, p, idx) == a
AfterDelete(a, p, idx) ==
  IF a.pc = "keys" /\ a.live /\ ToPropertyKey(a.type) = p /\ idx # 0 /\ idx <= a.i
  THEN [a EXCEPT !.i = @ - 1] ELSE a
AfterGlobalDelete_Stay(a, idx) == a
AfterGlobalDelete(a, idx) ==
  IF a.pc = "globals" /\ idx # 0 /\ idx <= a.j THEN [a EXCEPT !.j = @ - 1] ELSE a
\* History: off(type, fn) / offAll(fn) was called during activation a.
AfterOff(a, p, fn) ==
  IF ToPropertyKey(a.type) = p THEN [a EXCEPT !.removed = @ \cup {fn}] ELSE a
AfterOffAll(a, fn) == [a EXCEPT !.gremoved = @ \cup {fn}]
\* clear(): a key pass whose property is deleted keeps the Set object; the
\* global Set is emptied in place under the iterations over it.
AfterClear(a, deleted) ==
  LET b == [a EXCEPT !.clearedAt = Len(a.calls)]
  IN IF a.pc = "keys"
     THEN IF a.live /\ ToPropertyKey(a.type) \in deleted
          THEN [b EXCEPT !.live = FALSE, !.own = listeners[ToPropertyKey(a.type)]]
          ELSE b
     ELSE [b EXCEPT !.j = 0]

\* History: the watched registration is made again.
Fresh(a) == [a EXCEPT !.stale = {}]

----------------------------------------------------------------------------
\* The operations.

\* on(type, listener)
on(type, listener) ==
  LET p == ToPropertyKey(type)
      created == IF ~HasProperty(listeners, p)
                 THEN PutProperty(listeners, p, <<>>) ELSE listeners
  IN /\ CanCall
     /\ Charge
     /\ UNCHANGED <<globalListeners, watch, promises, self>>
     /\ IF IsInherited(created, p)
        THEN \* this.listeners[type].add is not a function
             /\ UNCHANGED <<listeners, stack, registered, fate>>
             /\ Raise("TypeError")
             /\ last' = Ended("on", type, listener, "TypeError", NoActivation)
        ELSE /\ listeners' = [created EXCEPT ![p] = SetAdd(@, listener)]
             /\ stack' = EachActivation([n \in DOMAIN stack |->
                  LET b == Mark(AfterAdd(stack[n], p, listener))
                  IN IF Watched(type, listener) THEN Fresh(b) ELSE b])
             /\ registered' = Register(p, listener)
             /\ fate' = IF Watched(type, listener) THEN MadeAgain ELSE fate
             /\ pending' = None
             /\ last' = Ended("on", type, listener, "this", NoActivation)

\* An off that removes the reference from every key's collection.
off_Everywhere(type, listener) ==
  LET p == ToPropertyKey(type)
  IN /\ CanCall
     /\ Charge
     /\ UNCHANGED <<globalListeners, watch, promises, self>>
     /\ IF IsUndefined(listeners, p)
        THEN /\ UNCHANGED listeners
             /\ stack' = EachActivation([n \in DOMAIN stack |->
                  AfterOff(stack[n], p, listener)])
             /\ registered' = Unregister(p, listener)
             /\ fate' = IF Watched(type, listener) THEN fate \cup {"off"} ELSE fate
             /\ pending' = None
             /\ last' = Ended("off", type, listener, "this", NoActivation)
        ELSE IF IsInherited(listeners, p)
        THEN \* this.listeners[type].delete is not a function
             /\ UNCHANGED <<listeners, stack, registered, fate>>
             /\ Raise("TypeError")
             /\ last' = Ended("off", type, listener, "TypeError", NoActivation)
        ELSE /\ listeners' = [q \in DOMAIN listeners |-> SetDelete(listeners[q], listener)]
             /\ stack' = EachActivation([n \in DOMAIN stack |->
                  Mark(AfterOff(AfterDelete(stack[n], p,
                         IndexOf(listeners[p], listener)), p, listener))])
             /\ registered' = Unregister(p, listener)
             /\ fate' = IF Watched(type, listener) THEN fate \cup {"off"} ELSE fate
             /\ pending' = None
             /\ last' = Ended("off", type, listener, "this", NoActivation)

\* off(type, listener)
off(type, listener) ==
  LET p == ToPropertyKey(type)
  IN /\ CanCall
     /\ Charge
     /\ UNCHANGED <<globalListeners, watch, promises, self>>
     /\ IF IsUndefined(listeners, p)
        THEN /\ UNCHANGED listeners
             /\ stack' = EachActivation([n \in DOMAIN stack |->
                  AfterOff(stack[n], p, listener)])
             /\ registered' = Unregister(p, listener)
             /\ fate' = IF Watched(type, listener) THEN fate \cup {"off"} ELSE fate
             /\ pending' = None
             /\ last' = Ended("off", type, listener, "this", NoActivation)
        ELSE IF IsInherited(listeners, p)
        THEN \* this.listeners[type].delete is not a function
             /\ UNCHANGED <<listeners, stack, registered, fate>>
             /\ Raise("TypeError")
             /\ last' = Ended("off", type, listener, "TypeError", NoActivation)
        ELSE /\ listeners' = [listeners EXCEPT ![p] = SetDelete(@, listener)]
             /\ stack' = EachActivation([n \in DOMAIN stack |->
                  Mark(AfterOff(AfterDelete(stack[n], p,
                         IndexOf(listeners[p], listener)), p, listener))])
             /\ registered' = Unregister(p, listener)
             /\ fate' = IF Watched(type, listener) THEN fate \cup {"off"} ELSE fate
             /\ pending' = None
             /\ last' = Ended("off", type, listener, "this", NoActivation)

onAll_Push(listener) ==
  /\ CanCall
  /\ Charge
  /\ globalListeners' = Append(globalListeners, listener)
  /\ UNCHANGED <<listeners, watch, promises, self>>
  /\ stack' = EachActivation([n \in DOMAIN stack |->
       IF Watched(AllEvents, listener) THEN Fresh(Mark(stack[n])) ELSE Mark(stack[n])])
  /\ registered' = Register(AllEvents, listener)
  /\ fate' = IF Watched(AllEvents, listener) THEN MadeAgain ELSE fate
  /\ pending' = None
  /\ last' = Ended("onAll", Str(""), listener, "this", NoActivation)

\* onAll(listener)
onAll(listener) ==
  /\ CanCall
  /\ Charge
  /\ globalListeners' = SetAdd(globalListeners, listener)
  /\ UNCHANGED <<listeners, watch, promises, self>>
  /\ stack' = EachActivation([n \in DOMAIN stack |->
       IF Watched(AllEvents, listener) THEN Fresh(Mark(stack[n])) ELSE Mark(stack[n])])
  /\ registered' = Register(AllEvents, listener)
  /\ fate' = IF Watched(AllEvents, listener) THEN MadeAgain ELSE fate
  /\ pending' = None
  /\ last' = Ended("onAll", Str(""), listener, "this", NoActivation)

offAll_Keep(listener) ==
  /\ CanCall
  /\ Charge
  /\ UNCHANGED <<listeners, globalListeners, stack, watch, promises, self>>
  /\ registered' = Unregister(AllEvents, listener)
  /\ fate' = IF Watched(AllEvents, listener) THEN fate \cup {"off"} ELSE fate
  /\ pending' = None
  /\ last' = Ended("offAll", Str(""), listener, "this", NoActivation)

\* offAll(listener)
offAll(listener) ==
  /\ CanCall
  /\ Charge
  /\ globalListeners' = SetDelete(globalListeners, listener)
  /\ UNCHANGED <<listeners, watch, promises, self>>
  /\ stack' = EachActivation([n \in DOMAIN stack |->
       Mark(AfterOffAll(AfterGlobalDelete(stack[n],
              IndexOf(globalListeners, listener)), listener))])
  /\ registered' = Unregister(AllEvents, listener)
  /\ fate' = IF Watched(AllEvents, listener) THEN fate \cup {"off"} ELSE fate
  /\ pending' = None
  /\ last' = Ended("offAll", Str(""), listener, "this", NoActivation)

\* A clear that fails when there is nothing to clear.
clear_Strict ==
  /\ CanCall
  /\ Charge
  /\ listeners' = DeleteProperties(listeners, ForInKeys(listeners))
  /\ globalListeners' = <<>>
  /\ UNCHANGED <<watch, promises, self>>
  /\ stack' = EachActivation([n \in DOMAIN stack |->
       Mark(AfterClear(stack[n], ForInKeys(listeners)))])
  /\ registered' = NoneRegistered
  /\ fate' = IF "was" \in fate THEN fate \cup {"clear"} ELSE fate
  /\ pending' = None
  /\ last' = Ended("clear", Str(""), Nil,
                   IF ForInKeys(listeners) = {} /\ globalListeners = <<>>
                   THEN "TypeError" ELSE "this", NoActivation)

\* clear()
clear ==
  /\ CanCall
  /\ Charge
  /\ listeners' = DeleteProperties(listeners, ForInKeys(listeners))
  /\ globalListeners' = <<>>
  /\ UNCHANGED <<watch, promises, self>>
  /\ stack' = EachActivation([n \in DOMAIN stack |->
       Mark(AfterClear(stack[n], ForInKeys(listeners)))])
  /\ registered' = NoneRegistered
  /\ fate' = IF "was" \in fate THEN fate \cup {"clear"} ELSE fate
  /\ pending' = None
  /\ last' = Ended("clear", Str(""), Nil, "this", NoActivation)

----------------------------------------------------------------------------
\* emit(type, ...data)

\* The record handed to the global listeners.
GlobalEvent(type, data) ==
  [type |-> type, data |-> IF Len(data) > 0 THEN data[1] ELSE Undefined]

ReplaceTop(a) == [stack EXCEPT ![Len(stack)] = a]

\* The call: this.listeners[type]?.forEach(...) starts the key pass when the
\* property holds a Set, is skipped when the property is undefined, and
\* fails when the property is an inherited one, which has no forEach.
emit(type, data) ==
  /\ CanCall
  /\ Len(stack) < MaxDepth
  /\ Charge
  /\ UNCHANGED <<listeners, globalListeners, registered, watch, fate, promises, self>>
  /\ IF IsInherited(listeners, ToPropertyKey(type))
     THEN /\ UNCHANGED stack
          /\ Raise("TypeError")
          /\ last' = Ended("emit", type, Nil, "TypeError",
                           [Activation(type, data) EXCEPT !.pc = "none"])
     ELSE /\ stack' = Append(stack, Activation(type, data))
          /\ pending' = None
          /\ last' = NoLast

Dispatching == stack # <<>> /\ pending = None /\ Top.running = Nil

\* A key pass that drops each listener once it has been invoked.
InvokeListener_Once ==
  /\ Dispatching
  /\ Top.pc = "keys" /\ Top.i < Len(KeySet(Top))
  /\ Len(Top.calls) < MaxCalls
  /\ LET fn == KeySet(Top)[Top.i + 1]
     IN /\ stack' = ReplaceTop([Top EXCEPT !.running = fn,
                      !.calls = Append(@, Invocation(fn, "key", Top.data))])
        /\ listeners' = [p \in DOMAIN listeners |->
                           IF p = ToPropertyKey(Top.type) /\ Top.live
                           THEN SetDelete(listeners[p], fn) ELSE listeners[p]]
  /\ last' = NoLast
  /\ UNCHANGED <<globalListeners, pending, ops, registered, watch, fate, promises, self>>

\* The next entry of the key pass: listener.apply(this, data)
InvokeListener ==
  /\ Dispatching
  /\ Top.pc = "keys" /\ Top.i < Len(KeySet(Top))
  /\ Len(Top.calls) < MaxCalls
  /\ LET fn == KeySet(Top)[Top.i + 1]
     IN stack' = ReplaceTop([Top EXCEPT !.i = @ + 1, !.running = fn,
                   !.calls = Append(@, Invocation(fn, "key", Top.data))])
  /\ last' = NoLast
  /\ UNCHANGED <<listeners, globalListeners, pending, ops, registered, watch, fate, promises, self>>

KeyPassOver(a) == a.pc = "globals" \/ a.i >= Len(KeySet(a))

\* The next entry of the global pass: listener.call(this, globalEvent)
InvokeGlobalListener ==
  /\ Dispatching
  /\ KeyPassOver(Top) /\ Top.j < Len(globalListeners)
  /\ Len(Top.calls) < MaxCalls
  /\ LET fn == globalListeners[Top.j + 1]
     IN stack' = ReplaceTop([Top EXCEPT !.pc = "globals", !.live = FALSE,
                   !.own = <<>>, !.i = 0, !.j = @ + 1, !.running = fn,
                   !.calls = Append(@, Invocation(fn, "global",
                                       <<GlobalEvent(Top.type, Top.data)>>))])
  /\ last' = NoLast
  /\ UNCHANGED <<listeners, globalListeners, pending, ops, registered, watch, fate, promises, self>>

\* return this
EmitReturns ==
  /\ Dispatching
  /\ KeyPassOver(Top) /\ Top.j >= Len(globalListeners)
  /\ stack' = Pop
  /\ last' = [Ended("emit", Top.type, Nil, "this", Top) EXCEPT !.depth = @ - 1]
  /\ ops' = IF Pop = <<>> THEN 0 ELSE ops
  /\ UNCHANGED <<listeners, globalListeners, pending, registered, watch, fate, promises, self>>

----------------------------------------------------------------------------
\* Listeners.  The running listener may call the emitter (the operations
\* above), and then returns or throws.  emit drops what a listener returns.

ListenerReturns_Await(ret) ==
  /\ Running /\ pending = None
  /\ stack' = ReplaceTop([Top EXCEPT !.running = Nil,
                 !.rejected = IF ret = "rejectedPromise" /\ @ = 0
                              THEN Len(Top.calls) ELSE @])
  /\ pending' = IF ret = "rejectedPromise" THEN "Error" ELSE None
  /\ last' = NoLast
  /\ UNCHANGED <<listeners, globalListeners, ops, registered, watch, fate, promises, self>>

ListenerReturns(ret) ==
  /\ Running /\ pending = None
  /\ stack' = ReplaceTop([Top EXCEPT !.running = Nil,
                 !.rejected = IF ret = "rejectedPromise" /\ @ = 0
                              THEN Len(Top.calls) ELSE @])
  /\ last' = NoLast
  /\ UNCHANGED <<listeners, globalListeners, pending, ops, registered, watch, fate, promises, self>>

ListenerDefers_Await ==
  /\ Running /\ pending = None
  /\ Top.running \notin promises
  /\ promises' = promises
  /\ stack' = ReplaceTop([Top EXCEPT !.running = Nil,
                 !.deferred = @ \cup {Top.running}])
  /\ last' = NoLast
  /\ UNCHANGED <<listeners, globalListeners, pending, ops, registered, watch, fate, self>>

\* The listener is an async function whose work is still under way: it
\* hands back a promise that is not settled.  emit drops it like any other
\* return value and goes on.
ListenerDefers ==
  /\ Running /\ pending = None
  /\ Top.running \notin promises
  /\ promises' = promises \cup {Top.running}
  /\ stack' = ReplaceTop([Top EXCEPT !.running = Nil,
                 !.deferred = @ \cup {Top.running}])
  /\ last' = NoLast
  /\ UNCHANGED <<listeners, globalListeners, pending, ops, registered, watch, fate, self>>

\* The deferred result of a listener settles: a job of the host's event
\* loop, which runs when no call is on the stack.
PromiseSettles(fn) ==
  /\ Host /\ fn \in promises
  /\ promises' = promises \ {fn}
  /\ last' = NoLast
  /\ UNCHANGED <<listeners, globalListeners, stack, pending, ops, registered, watch, fate, self>>

ListenerThrows ==
  /\ Running /\ pending = None
  /\ stack' = ReplaceTop([Top EXCEPT !.running = Nil, !.threw = Len(Top.calls)])
  /\ pending' = "Error"
  /\ last' = NoLast
  /\ UNCHANGED <<listeners, globalListeners, ops, registered, watch, fate, promises, self>>

\* An emitter call made by the running listener has thrown: the listener
\* catches the exception ...
ListenerCatches ==
  /\ Running /\ pending # None
  /\ pending' = None
  /\ last' = NoLast
  /\ UNCHANGED <<listeners, globalListeners, stack, ops, registered, watch, fate, promises, self>>

\* ... or lets it pass.
ListenerPropagates ==
  /\ Running /\ pending # None
  /\ stack' = ReplaceTop([Top EXCEPT !.running = Nil, !.threw = Len(Top.calls)])
  /\ last' = NoLast
  /\ UNCHANGED <<listeners, globalListeners, pending, ops, registered, watch, fate, promises, self>>

EmitAborts_Isolated ==
  /\ stack # <<>> /\ Top.running = Nil /\ pending # None
  /\ pending' = None
  /\ last' = NoLast
  /\ UNCHANGED <<listeners, globalListeners, stack, ops, registered, watch, fate, promises, self>>

\* An emit that drops the listener whose exception it propagates.
EmitAborts_Unregister ==
  /\ stack # <<>> /\ Top.running = Nil /\ pending # None
  /\ stack' = Pop
  /\ last' = [Ended("emit", Top.type, Nil, pending, Top) EXCEPT !.depth = @ - 1]
  /\ pending' = IF Pop = <<>> THEN None ELSE pending
  /\ ops' = IF Pop = <<>> THEN 0 ELSE ops
  /\ LET fn == IF Top.threw = 0 THEN Nil ELSE Top.calls[Top.threw].fn
     IN /\ listeners' = [p \in DOMAIN listeners |-> SetDelete(listeners[p], fn)]
        /\ globalListeners' = SetDelete(globalListeners, fn)
  /\ UNCHANGED <<registered, watch, fate, promises, self>>

\* An exception thrown by a listener leaves forEach / for-of and emit, which
\* catch nothing.
EmitAborts ==
  /\ stack # <<>> /\ Top.running = Nil /\ pending # None
  /\ stack' = Pop
  /\ last' = [Ended("emit", Top.type, Nil, pending, Top) EXCEPT !.depth = @ - 1]
  /\ pending' = IF Pop = <<>> THEN None ELSE pending
  /\ ops' = IF Pop = <<>> THEN 0 ELSE ops
  /\ UNCHANGED <<listeners, globalListeners, registered, watch, fate, promises, self>>

----------------------------------------------------------------------------
\* The host program calls the emitter; listeners return or throw.
Dispatch ==
  \/ InvokeListener
  \/ InvokeGlobalListener
  \/ EmitReturns
  \/ \E ret \in ReturnValues : ListenerReturns(ret)
  \/ ListenerThrows
  \/ EmitAborts

Next ==
  \/ \E type \in EventKeys, listener \in Listeners : Host /\ on(type, listener)
  \/ \E type \in EventKeys, listener \in Listeners : Host /\ off(type, listener)
  \/ \E listener \in Listeners : Host /\ onAll(listener)
  \/ \E listener \in Listeners : Host /\ offAll(listener)
  \/ Host /\ clear
  \/ \E type \in EventKeys : \E data \in Payloads(type) : Host /\ emit(type, data)
  \/ Dispatch

Spec == Init /\ [][Next]_vars

\* The same, following one registration through its removals.
\* (listeners are interchangeable in Next, so one of them is followed, at
\* every place that can hold a registration).
Watches ==
  {[type |-> t, fn |-> "f"] : t \in {Str("data"), Sym("loaded"), AllEvents}}
InitWatch ==
  /\ listeners = [p \in {} |-> <<>>]
  /\ globalListeners = <<>>
  /\ stack = <<>>
  /\ pending = None
  /\ ops = 0
  /\ last = NoLast
  /\ registered = NoneRegistered
  /\ watch \in Watches
  /\ fate = {}
  /\ promises = {}
  /\ self = "EventEmitter"

SpecWatch == InitWatch /\ [][Next]_vars

\* The same, following a global registration only.
InitWatchGlobal == InitWatch /\ watch.type = AllEvents

SpecWatchGlobal == InitWatchGlobal /\ [][Next]_vars

\* The same, for an emitter made from EventEmitter itself or from a class
\* that extends it (class MyEventEmitter extends EventEmitter): the instance
\* is one object, the receiver of every call made on it.
Instances == {"EventEmitter", "MyEventEmitter"}
InitDerived ==
  /\ listeners = [p \in {} |-> <<>>]
  /\ globalListeners = <<>>
  /\ stack = <<>>
  /\ pending = None
  /\ ops = 0
  /\ last = NoLast
  /\ registered = NoneRegistered
  /\ watch = NoWatch
  /\ fate = {}
  /\ promises = {}
  /\ self \in Instances

SpecDerived == InitDerived /\ [][Next]_vars

\* The same, with listeners that are async functions.
NextAsync ==
  \/ Next
  \/ ListenerDefers
  \/ \E fn \in Listeners : PromiseSettles(fn)

SpecAsync == Init /\ [][NextAsync]_vars

\* Listeners that remove themselves: the only off calls are those a key
\* listener makes for its own key and itself while it runs.
SelfRemoval ==
  /\ Running
  /\ Top.calls[Len(Top.calls)].pass = "key"
  /\ off(Top.type, Top.running)

NextSelfRemoval ==
  \/ \E type \in EventKeys, listener \in Listeners : Host /\ on(type, listener)
  \/ \E listener \in Listeners : Host /\ onAll(listener)
  \/ Host /\ clear
  \/ \E type \in EventKeys : \E data \in Payloads(type) : Host /\ emit(type, data)
  \/ Dispatch
  \/ SelfRemoval

\* One registration for a key is followed through its removal.
InitSelfRemoval == InitWatch /\ watch.type # AllEvents

SpecSelfRemoval == InitSelfRemoval /\ [][NextSelfRemoval]_vars

\* The same emitter with listeners that call it while they run: each call
\* below is made by the host program or by the running listener (CanCall).
\* A call that fails inside a listener is caught by it or ends it.
ReentrantKeys == {Str("data"), Str("constructor")}
Calls ==
  \/ \E type \in ReentrantKeys, listener \in Listeners : on(type, listener)
  \/ \E type \in ReentrantKeys, listener \in Listeners : off(type, listener)
  \/ \E listener \in Listeners : onAll(listener)
  \/ \E listener \in Listeners : offAll(listener)
  \/ clear
  \/ \E type \in ReentrantKeys : \E data \in Payloads(type) : emit(type, data)

\* Listeners that register and remove listeners, and do nothing else to the
\* emitter.
NextMutation ==
  \/ \E type \in ReentrantKeys, listener \in Listeners : on(type, listener)
  \/ \E type \in ReentrantKeys, listener \in Listeners : off(type, listener)
  \/ \E listener \in Listeners : onAll(listener)
  \/ \E listener \in Listeners : offAll(listener)
  \/ \E type \in ReentrantKeys : \E data \in Payloads(type) : Host /\ emit(type, data)
  \/ Dispatch
  \/ ListenerCatches
  \/ ListenerPropagates

SpecMutation == Init /\ [][NextMutation]_vars

NextReentrant == Calls \/ Dispatch \/ ListenerCatches \/ ListenerPropagates

SpecReentrant == Init /\ [][NextReentrant]_vars

\* Dispatch that may go on forever.  The record of an emit's invocations
\* (calls, added, ops) is history the emitter does not hold: a running emit
\* whose listeners have all returned may drop it, so that an emit that never
\* returns is a cycle of states.  The loops of emit (forEach, for...of) take
\* their next step whenever they can, and every listener returns.
ForgetHistory ==
  /\ Dispatching /\ Len(stack) = 1
  /\ Top.calls # <<>>
  /\ stack' = ReplaceTop([Top EXCEPT !.calls = <<>>, !.added = {}])
  /\ ops' = 0
  /\ last' = NoLast
  /\ UNCHANGED <<listeners, globalListeners, pending, registered, watch, fate, promises, self>>

TerminationKeys == {Str("data")}
NextTermination ==
  \/ \E type \in TerminationKeys, listener \in Listeners : on(type, listener)
  \/ \E type \in TerminationKeys, listener \in Listeners : off(type, listener)
  \/ \E listener \in Listeners : onAll(listener)
  \/ \E listener \in Listeners : offAll(listener)
  \/ \E type \in TerminationKeys : Host /\ emit(type, <<"x">>)
  \/ InvokeListener
  \/ InvokeGlobalListener
  \/ EmitReturns
  \/ ListenerReturns(Undefined)
  \/ ForgetHistory

EmitProgress ==
  /\ WF_vars(InvokeListener \/ InvokeGlobalListener \/ EmitReturns)
  /\ WF_vars(ListenerReturns(Undefined))
  /\ WF_vars(ForgetHistory)

SpecTermination == Init /\ [][NextTermination]_vars /\ EmitProgress

----------------------------------------------------------------------------
\* What the claims read.

KeyCalls(a) == SelectSeq(a.calls, LAMBDA c : c.pass = "key")
GlobalCalls(a) == SelectSeq(a.calls, LAMBDA c : c.pass = "global")
Fns(calls) == [n \in 1..Len(calls) |-> calls[n].fn]
\* The emit calls in progress, and the one that has just ended.
Activations == Range(stack) \cup (IF last.op = "emit" THEN {last.act} ELSE {})
EmitEnded == last.op = "emit"
EmitReturned == last.op = "emit" /\ last.outcome = "this"

\* C1: a listener registered for a key with on, and not removed since, is
\* invoked exactly once by an emit of that key that returns and during which
\* no listener changes a registry, and it is applied to exactly the
\* arguments emit was given after the key (none for a void event).
C1_RegisteredListenerInvokedOnce ==
  (EmitReturned /\ ~last.act.mutated) =>
    \A fn \in Range(last.act.reg0) :
      /\ Count(Fns(KeyCalls(last.act)), fn) = 1
      /\ \A n \in 1..Len(last.act.calls) :
           (last.act.calls[n].pass = "key" /\ last.act.calls[n].fn = fn)
             => last.act.calls[n].args = last.act.data

C1_Witness ==
  /\ EmitReturned /\ ~last.act.mutated
  /\ Len(last.act.reg0) = 2
  /\ last.act.data = <<"y">>
  /\ Len(KeyCalls(last.act)) = 2

\* C2: once off(K, L) has been called after on(K, L), and on(K, L) has not
\* been called again, no emit of K that starts afterwards invokes L as a key
\* listener, whatever other calls were made in between.
C2_RemovedListenerNotInvoked ==
  \A a \in Activations :
    (ToPropertyKey(a.type) = watch.type /\ {"was", "off"} \subseteq a.stale)
      => ~SetHas(Fns(KeyCalls(a)), watch.fn)

C2_Witness ==
  /\ EmitReturned
  /\ ToPropertyKey(last.act.type) = watch.type
  /\ {"was", "off"} \subseteq last.act.stale
  /\ Len(KeyCalls(last.act)) > 0
  /\ Len(GlobalCalls(last.act)) > 0

\* C3: every global listener registered with onAll and not removed is
\* invoked exactly once by every emit call that no listener makes throw,
\* for every event key, with or without key listeners.
C3_GlobalListenerInvokedOnce ==
  (EmitEnded /\ last.outcome # "Error") =>
    \A fn \in Range(last.act.greg0) :
      Count(Fns(GlobalCalls(last.act)), fn) = 1

\* C4: after clear() a registration made before it, key or global, is not
\* invoked by an emit that starts afterwards, until it is made again.
C4_ClearedListenerNotInvoked ==
  \A a \in Activations :
    "clear" \in a.stale =>
      IF watch.type = AllEvents
      THEN ~SetHas(Fns(GlobalCalls(a)), watch.fn)
      ELSE ToPropertyKey(a.type) = watch.type
             => ~SetHas(Fns(KeyCalls(a)), watch.fn)

\* The keys under which the calls made have left fn registered.
RegisteredUnder(fn) == {p \in Places \ {AllEvents} : SetHas(registered[p], fn)}

\* C5: a listener registered under key K only is not invoked as a key
\* listener by an emit of another key.
C5_KeyIsolation ==
  \A a \in Activations : \A n \in 1..Len(a.calls) :
    a.calls[n].pass = "key" =>
      \A K \in Places \ {AllEvents, ToPropertyKey(a.type)} :
        RegisteredUnder(a.calls[n].fn) # {K}

\* x comes before y in s
Before(s, x, y) == IndexOf(s, x) # 0 /\ IndexOf(s, x) < IndexOf(s, y)

\* C6: within one emit, every key listener invocation precedes every global
\* listener invocation, and the listeners of each pass are invoked in the
\* order in which they were registered.
C6_RegistrationOrder ==
  \A a \in Activations : \A m, n \in 1..Len(a.calls) :
    m < n =>
      LET c == a.calls[m]
          e == a.calls[n]
          place == IF c.pass = "key" THEN ToPropertyKey(a.type) ELSE AllEvents
      IN /\ ~(c.pass = "global" /\ e.pass = "key")
         /\ (c.pass = e.pass /\ SetHas(registered[place], c.fn)
                             /\ SetHas(registered[place], e.fn))
              => Before(registered[place], c.fn, e.fn)

\* C7: the record a global listener receives has the emitted key as its
\* type, the emitted payload as its data, and a data field exactly when
\* the emit call carried a payload.
C7_GlobalEventRecord ==
  \A a \in Activations : \A n \in 1..Len(a.calls) :
    a.calls[n].pass = "global" =>
      LET event == a.calls[n].args[1]
      IN /\ event.type = a.type
         /\ Len(a.data) > 0 => event.data = a.data[1]
         /\ ("data" \in DOMAIN event) <=> (Len(a.data) > 0)

\* C8: no call of on, off, onAll, offAll, emit or clear fails by itself,
\* for any event key.
C8_OperationsNeverFail == last.outcome # "TypeError"

\* C9: when a listener throws, no further listener is invoked by that emit,
\* the exception is in flight until the emit has ended, and the emit ends by
\* throwing it to its caller.
C9_ThrowAbortsEmit ==
  /\ \A a \in Activations : a.threw # 0 => Len(a.calls) = a.threw
  /\ \A n \in 1..Len(stack) : stack[n].threw # 0 => pending = "Error"
  /\ (EmitEnded /\ last.act.threw # 0) => last.outcome = "Error"

C9_Witness ==
  /\ EmitEnded /\ last.outcome = "Error"
  /\ last.act.threw = 1
  /\ Len(last.act.reg0) = 2
  /\ Len(last.act.greg0) = 2

\* C10 as stated: a rejected promise handed back by a listener ends the
\* emit like a throw: no further listener is invoked and emit throws.
C10_RejectionAbortsEmit ==
  /\ \A a \in Activations : a.rejected # 0 => Len(a.calls) = a.rejected
  /\ (EmitEnded /\ last.act.rejected # 0) => last.outcome = "Error"

\* C10: a rejected promise handed back by a listener is dropped: unless a
\* listener throws, the emit goes on to invoke every registered listener
\* once and returns the emitter.
C10_RejectionIgnored ==
  (EmitEnded /\ last.act.rejected # 0 /\ last.act.threw = 0) =>
    /\ last.outcome = "this"
    /\ \A fn \in Range(last.act.reg0) : Count(Fns(KeyCalls(last.act)), fn) = 1
    /\ \A fn \in Range(last.act.greg0) : Count(Fns(GlobalCalls(last.act)), fn) = 1

C10_Witness ==
  /\ EmitReturned
  /\ last.act.rejected = 1
  /\ Len(KeyCalls(last.act)) = 2
  /\ Len(GlobalCalls(last.act)) = 2

\* C11: emit does not wait for what a listener hands back: every promise
\* handed back to an emit is still unsettled while that emit runs and when
\* it returns, and an emit in which a listener handed back a promise
\* returns only after every registered listener has been invoked.
C11_EmitDoesNotAwait ==
  /\ \A a \in Activations : a.deferred \subseteq promises
  /\ (EmitReturned /\ last.act.deferred # {}) =>
       /\ \A fn \in Range(last.act.reg0) : SetHas(Fns(KeyCalls(last.act)), fn)
       /\ \A fn \in Range(last.act.greg0) : SetHas(Fns(GlobalCalls(last.act)), fn)

C11_Witness ==
  /\ EmitReturned /\ Host
  /\ Len(last.act.calls) = 4
  /\ last.act.calls[1].fn \in last.act.deferred
  /\ last.act.calls[1].fn \in promises

\* C12: when key listeners remove themselves during the emit that invokes
\* them and no listener throws, the emit returns, every listener registered
\* for the key when it began (the removed ones included) and every global
\* listener has been invoked exactly once, and no emit of the key that
\* starts after the removal invokes the removed listener.
C12_SelfRemovalDuringDispatch ==
  /\ (EmitEnded /\ last.act.removed # {} /\ last.act.threw = 0) =>
       /\ last.outcome = "this"
       /\ \A fn \in Range(last.act.reg0) : Count(Fns(KeyCalls(last.act)), fn) = 1
       /\ \A fn \in Range(last.act.greg0) : Count(Fns(GlobalCalls(last.act)), fn) = 1
  /\ \A a \in Activations :
       (ToPropertyKey(a.type) = watch.type /\ {"was", "off"} \subseteq a.stale)
         => \A n \in 1..Len(a.calls) :
              a.calls[n].pass = "key" => a.calls[n].fn # watch.fn

C12_Witness ==
  /\ EmitReturned
  /\ last.act.reg0 = <<"f", "g">>
  /\ last.act.removed = {"f"}
  /\ last.act.greg0 = <<"g", "f">>

\* C13: whatever on, off, onAll and offAll calls listeners make during an
\* emit, when the emit returns every listener that was registered for its
\* key, or globally, when it began and that no off (for the key) or offAll
\* call named meanwhile has been invoked exactly once in its pass.
C13_NoSkippedEntry ==
  EmitReturned =>
    /\ \A fn \in Range(last.act.reg0) \ last.act.removed :
         Count(Fns(KeyCalls(last.act)), fn) = 1
    /\ \A fn \in Range(last.act.greg0) \ last.act.gremoved :
         Count(Fns(GlobalCalls(last.act)), fn) = 1

C13_Witness ==
  /\ EmitReturned /\ last.act.mutated
  /\ last.act.reg0 = <<"f", "g">> /\ last.act.removed = {"f"}
  /\ last.act.greg0 = <<"f", "g">> /\ last.act.gremoved = {"f"}
  /\ Fns(last.act.calls) = <<"f", "g", "f", "g">>

\* C14: a listener invoked after clear() was called, be it before the emit
\* or by a listener during it, is one that has been registered again since
\* that clear().
C14_NoDeliveryAfterClear ==
  \A a \in Activations : \A n \in 1..Len(a.calls) :
    n > a.clearedAt => a.calls[n].reg

\* C15: no listener collection holds a reference twice, and a listener for
\* which on (or onAll) was called again while it was registered is invoked
\* exactly once by an emit of its key (by any emit) that returns.
C15_Deduplication ==
  /\ \A p \in DOMAIN listeners : \A fn \in Listeners : Count(listeners[p], fn) <= 1
  /\ \A fn \in Listeners : Count(globalListeners, fn) <= 1
  /\ (EmitReturned /\ "again" \in last.act.stale
                   /\ last.act.stale \cap {"off", "clear"} = {}) =>
       IF watch.type = AllEvents
       THEN Count(Fns(GlobalCalls(last.act)), watch.fn) = 1
       ELSE Count(Fns(KeyCalls(last.act)), watch.fn) = 1

C15_Witness ==
  /\ EmitReturned
  /\ last.act.stale = {"was", "again"}
  /\ ToPropertyKey(last.act.type) = watch.type
  /\ Len(KeyCalls(last.act)) = 2
  /\ Len(GlobalCalls(last.act)) = 2

\* C16: off(K, L) when K has no collection or L is not in it does not
\* raise and leaves both registries as they were.
C16_OffUnregisteredIsNoOp ==
  [][\A type \in EventKeys, listener \in Listeners :
       (/\ off(type, listener)
        /\ \/ ~HasOwn(listeners, ToPropertyKey(type))
           \/ ~SetHas(listeners[ToPropertyKey(type)], listener))
         => /\ last'.outcome = "this"
            /\ listeners' = listeners
            /\ globalListeners' = globalListeners]_vars

\* C17: once offAll(G) has been called after onAll(G), and onAll(G) has not
\* been called again, no emit that starts afterwards invokes G as a global
\* listener, for any key; and offAll of a listener that is not in the
\* global collection returns the emitter and changes neither registry.
C17_GlobalRemoval ==
  /\ [](\A a \in Activations :
         (watch.type = AllEvents /\ {"was", "off"} \subseteq a.stale)
           => ~SetHas(Fns(GlobalCalls(a)), watch.fn))
  /\ [][\A listener \in Listeners :
         (offAll(listener) /\ ~SetHas(globalListeners, listener))
           => /\ last'.outcome = "this"
              /\ listeners' = listeners
              /\ globalListeners' = globalListeners]_vars

C17_Witness ==
  /\ EmitReturned
  /\ watch.type = AllEvents
  /\ {"was", "off"} \subseteq last.act.stale
  /\ Len(GlobalCalls(last.act)) > 0
  /\ Len(KeyCalls(last.act)) > 0

\* C18: every listener invocation, by the key pass or by the global pass,
\* has the emitter instance on which emit was called as its `this`, also
\* when that instance was made from a class that extends EventEmitter.
C18_InvocationContext ==
  \A a \in Activations :
    /\ a.pc # "none" => a.this = self
    /\ \A n \in 1..Len(a.calls) : a.calls[n].this = self

C18_Witness ==
  /\ EmitReturned
  /\ self = "MyEventEmitter"
  /\ Len(KeyCalls(last.act)) = 2
  /\ Len(GlobalCalls(last.act)) = 2

\* C19: every call of on, off, onAll, offAll, emit and clear that no listener
\* makes throw ends by returning the emitter it was called on.
C19_ReturnsEmitter ==
  (last.op \in {"on", "off", "onAll", "offAll", "emit", "clear"}
     /\ last.outcome # "Error")
    => last.outcome = "this"

\* C20: a listener newly registered for the key of an emit during its key
\* pass, and not removed again, has been invoked by that emit, after it was
\* registered, when the emit returns, whatever the listeners did before.
C20_AdditionInvokedInSameEmission ==
  EmitReturned =>
    \A e \in last.act.added :
      e.fn \notin last.act.removed =>
        \E n \in (e.at + 1)..Len(last.act.calls) :
          last.act.calls[n].pass = "key" /\ last.act.calls[n].fn = e.fn

\* C21: with listeners that return and call only on, off, onAll and offAll,
\* every emit call that has started eventually returns.
C21_EmitTerminates == (stack # <<>>) ~> (stack = <<>>)

\* C22: a nested emit runs to completion first: while an emit called by a
\* listener is in progress the emission that invoked that listener invokes
\* nothing, and when the nested emit ends without a listener having made it
\* throw, every listener registered for its key and every global listener
\* (registered when it began and not removed or cleared meanwhile) has been
\* invoked by it, the global ones with the record of the nested key.
C22_NestedEmitCompletesFirst ==
  /\ []((last.op = "emit" /\ last.depth >= 1 /\ last.outcome # "Error"
           /\ last.act.clearedAt = 0) =>
          /\ \A fn \in Range(last.act.reg0) \ last.act.removed :
               SetHas(Fns(KeyCalls(last.act)), fn)
          /\ \A fn \in Range(last.act.greg0) \ last.act.gremoved :
               \E n \in 1..Len(last.act.calls) :
                 /\ last.act.calls[n].pass = "global"
                 /\ last.act.calls[n].fn = fn
                 /\ last.act.calls[n].args =
                      <<GlobalEvent(last.act.type, last.act.data)>>)
  /\ [][Len(stack) >= 2 => Fns(stack'[1].calls) = Fns(stack[1].calls)]_vars

\* C23: a listener for which off (for the key of the emit) or offAll was
\* called during an emission is not invoked by that emission while it is
\* removed: whenever it is invoked, it was registered at that moment.
C23_RemovalTakesEffectImmediately ==
  \A a \in Activations : \A n \in 1..Len(a.calls) :
    a.calls[n].fn \in (IF a.calls[n].pass = "key" THEN a.removed ELSE a.gremoved)
      => a.calls[n].reg

\* C24: a listener's exception, and the emit that propagates it, change
\* neither registry: when the emit has thrown, both hold exactly what they
\* held before, the listener that threw included, and every emit that
\* returns from then on has invoked each listener of its key's collection
\* and of the global collection exactly once.
C24_FailureLeavesEmitterUsable ==
  /\ [][(ListenerThrows \/ EmitAborts) =>
          (listeners' = listeners /\ globalListeners' = globalListeners)]_vars
  /\ []((EmitEnded /\ last.outcome = "Error") =>
          /\ globalListeners = last.act.globals0
          /\ HasOwn(listeners, ToPropertyKey(last.act.type)) =>
               listeners[ToPropertyKey(last.act.type)] = last.act.keys0
          /\ LET thrower == last.act.calls[last.act.threw]
             IN IF thrower.pass = "key"
                THEN SetHas(listeners[ToPropertyKey(last.act.type)], thrower.fn)
                ELSE SetHas(globalListeners, thrower.fn)
          /\ [](EmitReturned =>
                  /\ \A fn \in Range(last.act.keys0) :
                       Count(Fns(KeyCalls(last.act)), fn) = 1
                  /\ \A fn \in Range(last.act.globals0) :
                       Count(Fns(GlobalCalls(last.act)), fn) = 1))

C24_Witness ==
  /\ EmitEnded /\ last.outcome = "Error"
  /\ last.act.threw = 2
  /\ Len(last.act.keys0) = 2 /\ listeners[ToPropertyKey(last.act.type)] = last.act.keys0
  /\ Len(last.act.globals0) = 2 /\ globalListeners = last.act.globals0

\* C25: a call of on or off for a key changes no other key's collection and
\* not the global collection, and a call of onAll or offAll changes no key's
\* collection: a reference removed from one place stays in the others.
\* (`last` names the call that the step has just ended.)
C25_RegistriesIndependent ==
  [][/\ last'.op \in {"on", "off"} =>
          /\ globalListeners' = globalListeners
          /\ \A p \in (DOMAIN listeners \cup DOMAIN listeners') \ {ToPropertyKey(last'.type)} :
               /\ p \in DOMAIN listeners /\ p \in DOMAIN listeners'
               /\ listeners'[p] = listeners[p]
     /\ last'.op \in {"onAll", "offAll"} => listeners' = listeners]_vars

C25_Witness ==
  /\ last.op = "offAll" /\ last.fn = "f"
  /\ Watched(AllEvents, "f") /\ fate = {"was", "off"}
  /\ ~SetHas(globalListeners, "f")
  /\ HasOwn(listeners, Str("data")) /\ SetHas(listeners[Str("data")], "f")
  /\ HasOwn(listeners, Sym("loaded")) /\ SetHas(listeners[Sym("loaded")], "f")

\* C26: emit changes no registry by itself: every step that is not a call
\* of on, off, onAll, offAll or clear leaves the key map and the global
\* collection as they are, and when an emit has ended during which no
\* listener changed a registry, the collection of its key and the global
\* collection are what they were when it began.
C26_EmitChangesNoRegistry ==
  /\ [][last'.op \notin {"on", "off", "onAll", "offAll", "clear"} =>
          (listeners' = listeners /\ globalListeners' = globalListeners)]_vars
  /\ []((EmitEnded /\ ~last.act.mutated) =>
          /\ globalListeners = last.act.globals0
          /\ IF HasOwn(listeners, ToPropertyKey(last.act.type))
             THEN listeners[ToPropertyKey(last.act.type)] = last.act.keys0
             ELSE last.act.keys0 = <<>>)

C26_Witness ==
  /\ EmitReturned /\ ~last.act.mutated
  /\ Len(last.act.calls) = 4
  /\ listeners[ToPropertyKey(last.act.type)] = <<"f", "g">>
  /\ globalListeners = <<"g", "f">>

\* C27: clear never raises; a clear() that follows a clear() changes neither
\* registry, and a clear() of an emitter that holds no listener leaves an
\* emitter that holds no listener.
C27_ClearIdempotent ==
  [][last'.op = "clear" =>
       /\ last'.outcome = "this"
       /\ last.op = "clear" =>
            (listeners' = listeners /\ globalListeners' = globalListeners)
       /\ ((\A p \in DOMAIN listeners : listeners[p] = <<>>) /\ globalListeners = <<>>) =>
            ((\A p \in DOMAIN listeners' : listeners'[p] = <<>>) /\ globalListeners' = <<>>)]_vars

C27_Witness ==
  /\ last.op = "clear" /\ last.outcome = "this"
  /\ ForInKeys(listeners) = {} /\ globalListeners = <<>>
  /\ registered = NoneRegistered

\* C28: on(K, L) for a reference that K's collection holds leaves the
\* collection, and so the order of invocation, as it is; on(K, L) that
\* directly follows off(K, L) puts L behind every listener that stayed; and
\* an emit during which no listener changes a registry invokes the key's
\* listeners in the order of the collection.
C28_ReRegistrationOrder ==
  /\ [][(last'.op = "on" /\ last'.outcome = "this") =>
          LET p == ToPropertyKey(last'.type)
              old == IF HasOwn(listeners, p) THEN listeners[p] ELSE <<>>
          IN /\ SetHas(old, last'.fn) => listeners'[p] = old
             /\ (last.op = "off" /\ last.outcome = "this"
                   /\ last.type = last'.type /\ last.fn = last'.fn) =>
                  (~SetHas(old, last'.fn) /\ listeners'[p] = Append(old, last'.fn))]_vars
  /\ []((EmitReturned /\ ~last.act.mutated) =>
          Fns(KeyCalls(last.act)) = last.act.keys0)

C28_Witness ==
  /\ EmitReturned
  /\ last.act.keys0 = <<"f", "g">>
  /\ last.act.removed = {"f"}
  /\ \E e \in last.act.added : e.fn = "f" /\ e.at = 1
  /\ Fns(KeyCalls(last.act)) = <<"f", "g", "f">>
  /\ listeners[ToPropertyKey(last.act.type)] = <<"g", "f">>

\* C29: a key's collection comes into being only by a call of on for that
\* key, which emit and off never make; off never takes a key's collection
\* away; and clear() leaves no key's collection behind, so that a key that
\* is present has had on called for it since construction or the last
\* clear().
C29_LazyKeyCreation ==
  [][/\ \A p \in DOMAIN listeners' \ DOMAIN listeners :
          last'.op = "on" /\ ToPropertyKey(last'.type) = p
     /\ last'.op \in {"off", "emit"} => DOMAIN listeners' = DOMAIN listeners
     /\ last'.op = "clear" => DOMAIN listeners' = {}]_vars

====
